---- MODULE Spec2Model ----
(***************************************************************************)
(* The HDHomeRun packet codec of package hdhomerun (packet.go): the frame  *)
(* codec Packet.MarshalBinary / Packet.UnmarshalBinary and the tag length  *)
(* codec writeTagLength / readTagLength.                                   *)
(*                                                                         *)
(* A byte is a number in 0..255, a []byte a sequence of bytes.  Go slices  *)
(* are 0-based and half open, sequences 1-based: At and Slice translate.   *)
(* A nil slice and an empty slice are both the empty sequence.  An error   *)
(* is the string of its message, and nil the string "<nil>".               *)
(***************************************************************************)
EXTENDS Integers, Sequences, FiniteSets, TLC

VARIABLES
    p,      \* the Packet the caller marshals
    buf,    \* the byte buffer between MarshalBinary and UnmarshalBinary
    q,      \* the Packet that receives UnmarshalBinary
    recv,   \* q as it was when UnmarshalBinary was last called
    at,     \* the loop offset i at which UnmarshalBinary last returned
    out,    \* the buffer MarshalBinary returned for the decoded Packet q
    err,    \* the error of the last frame operation
    op,     \* the last operation
    n,      \* the length handed to writeTagLength
    win,    \* the window handed to writeTagLength / readTagLength
    win0,   \* win as it was before the last writeTagLength
    wres,   \* [consumed, err] of the last writeTagLength
    rres    \* [length, consumed, err] of the last readTagLength

vars == <<p, buf, q, recv, at, out, err, op, n, win, win0, wres, rres>>

frameVars == <<p, buf, q, recv, at, out, err>>
lengthVars == <<n, win, win0, wres, rres>>

-----------------------------------------------------------------------------
(* Bounds and input sets                                                   *)

\* the largest number of tags of a packet of SmallPackets
MaxTags == 2

Byte == 0..255

Repeat(x, k) == [i \in 1..k |-> x]

-----------------------------------------------------------------------------
(* Go values                                                               *)

Nil == "<nil>"
ErrUnexpectedEOF == "unexpected EOF"
errInvalidChecksum == "invalid CRC32 checksum"
errWriteWindow == "must pass exactly two bytes to writeTagLength"
errReadWindow == "must pass exactly two bytes to readTagLength"
errLargeTags == "large tags not implemented"
\* a run-time panic of a slice expression or an index out of range
Panic == "panic: runtime error: slice bounds out of range"

TwoPow16 == 65536

\* b[i] and b[lo:hi] of Go
At(b, i) == b[i + 1]
Slice(b, lo, hi) == SubSeq(b, lo + 1, hi)

\* the zero value of Packet, new(Packet)
ZeroPacket == [Type |-> 0, Tags |-> <<>>]

-----------------------------------------------------------------------------
(* hash/crc32: ChecksumIEEE, table driven.  A 32-bit value is kept as its  *)
(* four bytes, least significant first, which is also the order            *)
(* binary.LittleEndian.PutUint32 writes them in.                           *)

RECURSIVE XorBits(_, _)
XorBits(a, b) ==
    IF a = 0 THEN b
    ELSE IF b = 0 THEN a
    ELSE (((a % 2) + (b % 2)) % 2) + 2 * XorBits(a \div 2, b \div 2)

Xor8Table == [a \in Byte |-> [b \in Byte |-> XorBits(a, b)]]

Xor8(a, b) == Xor8Table[a][b]

\* one entry of the IEEE table (reflected polynomial 0xedb88320), computed on
\* the high and the low 16 bits
RECURSIVE CrcEntry(_, _, _)
CrcEntry(hi, lo, k) ==
    IF k = 0 THEN <<lo % 256, lo \div 256, hi % 256, hi \div 256>>
    ELSE LET shHi == hi \div 2
             shLo == (lo \div 2) + (hi % 2) * 32768
         IN IF lo % 2 = 1
            THEN CrcEntry(XorBits(shHi, 60856), XorBits(shLo, 33568), k - 1)
            ELSE CrcEntry(shHi, shLo, k - 1)

IEEETable == [i \in Byte |-> CrcEntry(0, i, 8)]

\* crc = table[byte(crc) ^ v] ^ (crc >> 8)
CrcUpdate(crc, v) ==
    LET t == IEEETable[Xor8(crc[1], v)]
    IN <<Xor8(t[1], crc[2]), Xor8(t[2], crc[3]), Xor8(t[3], crc[4]), t[4]>>

\* the update folded over b[lo..hi], left to right
RECURSIVE CrcRange(_, _, _, _)
CrcRange(crc, b, lo, hi) ==
    IF lo > hi THEN crc
    ELSE IF lo = hi THEN CrcUpdate(crc, b[lo])
    ELSE LET mid == (lo + hi) \div 2
             left == CrcRange(crc, b, lo, mid)
         IN IF Len(left) = 4 THEN CrcRange(left, b, mid + 1, hi) ELSE left

ChecksumIEEE(b) ==
    LET c == CrcRange(<<255, 255, 255, 255>>, b, 1, Len(b))
    IN <<255 - c[1], 255 - c[2], 255 - c[3], 255 - c[4]>>

\* binary.BigEndian.PutUint16 and Uint16
PutUint16BE(v) == <<(v \div 256) % 256, v % 256>>
Uint16BE(b) == b[1] * 256 + b[2]

-----------------------------------------------------------------------------
(* The tag length codec                                                    *)

writeTagLength(len, b) ==
    IF Len(b) # 2
    THEN [consumed |-> 0, err |-> errWriteWindow, b |-> b]
    ELSE IF len < 128
    THEN [consumed |-> 1, err |-> Nil, b |-> [b EXCEPT ![1] = len % 256]]
    ELSE [consumed |-> 0, err |-> errLargeTags, b |-> b]

readTagLength(b) ==
    IF Len(b) # 2
    THEN [length |-> 0, consumed |-> 0, err |-> errReadWindow]
    ELSE IF b[1] < 128
    THEN [length |-> b[1], consumed |-> 1, err |-> Nil]
    ELSE [length |-> 0, consumed |-> 0, err |-> errLargeTags]

-----------------------------------------------------------------------------
(* The frame codec: MarshalBinary                                          *)

\* one turn of the sizing loop: 1 + tlen + len(t.Data)
TagSize(t) == 1 + (IF Len(t.Data) > 127 THEN 2 ELSE 1) + Len(t.Data)

\* count after the sizing loop over tags[lo..hi]
RECURSIVE CountTags(_, _, _)
CountTags(tags, lo, hi) ==
    IF lo > hi THEN 0
    ELSE IF lo = hi THEN TagSize(tags[lo])
    ELSE LET mid == (lo + hi) \div 2
         IN CountTags(tags, lo, mid) + CountTags(tags, mid + 1, hi)

\* one turn of the writing loop: the bytes it puts at b[i:], or the error it
\* returns.  The window b[i:i+2] is still zero when writeTagLength gets it.
WriteTag(t) ==
    LET w == writeTagLength(Len(t.Data), <<0, 0>>)
    IN IF w.err # Nil
       THEN [err |-> w.err, bytes |-> <<>>]
       ELSE [err |-> Nil,
             bytes |-> <<t.Type>> \o SubSeq(w.b, 1, w.consumed) \o t.Data]

\* the writing loop over tags[lo..hi]: it stops at the first error
RECURSIVE WriteTags(_, _, _)
WriteTags(tags, lo, hi) ==
    IF lo > hi THEN [err |-> Nil, bytes |-> <<>>]
    ELSE IF lo = hi THEN WriteTag(tags[lo])
    ELSE LET mid == (lo + hi) \div 2
             left == WriteTags(tags, lo, mid)
         IN IF left.err # Nil THEN left
            ELSE LET right == WriteTags(tags, mid + 1, hi)
                 IN [err |-> right.err, bytes |-> left.bytes \o right.bytes]

MarshalBinary(pk) ==
    LET count == CountTags(pk.Tags, 1, Len(pk.Tags))
        w == WriteTags(pk.Tags, 1, Len(pk.Tags))
        body == PutUint16BE(pk.Type) \o PutUint16BE(count % TwoPow16)
                    \o w.bytes \o Repeat(0, count - Len(w.bytes))
    IN IF w.err # Nil
       THEN [b |-> <<>>, err |-> w.err]
       ELSE [b |-> body \o ChecksumIEEE(body), err |-> Nil]

-----------------------------------------------------------------------------
(* The frame codec: UnmarshalBinary                                        *)

\* TagStep with the trailer left out of the bound on the payload:
\* len(b[i:]) < tlen in place of len(b[i:])-4 < tlen
TagStepNoTrailer(b, st) ==
    LET i1 == st.i + 1
        r == readTagLength(Slice(b, i1, i1 + 2))
        i2 == i1 + r.consumed
        t == [Type |-> At(b, st.i), Data |-> Slice(b, i2, i2 + r.length)]
        i3 == i2 + r.length
    IN IF i1 + 2 > Len(b)
       THEN [st EXCEPT !.i = i1, !.err = Panic, !.done = TRUE]
       ELSE IF r.err # Nil
       THEN [st EXCEPT !.i = i1, !.err = r.err, !.done = TRUE]
       ELSE IF Len(b) - i2 < r.length
       THEN [st EXCEPT !.i = i2, !.err = ErrUnexpectedEOF, !.done = TRUE]
       ELSE [i |-> i3, tags |-> Append(st.tags, t), err |-> Nil,
             done |-> ~(i3 < Len(b) - 4)]

\* one turn of the tag loop, from offset st.i
TagStep(b, st) ==
    LET i1 == st.i + 1
        r == readTagLength(Slice(b, i1, i1 + 2))
        i2 == i1 + r.consumed
        t == [Type |-> At(b, st.i), Data |-> Slice(b, i2, i2 + r.length)]
        i3 == i2 + r.length
    IN IF i1 + 2 > Len(b)
       THEN [st EXCEPT !.i = i1, !.err = Panic, !.done = TRUE]
       ELSE IF r.err # Nil
       THEN [st EXCEPT !.i = i1, !.err = r.err, !.done = TRUE]
       ELSE IF (Len(b) - i2) - 4 < r.length
       THEN [st EXCEPT !.i = i2, !.err = ErrUnexpectedEOF, !.done = TRUE]
       ELSE [i |-> i3, tags |-> Append(st.tags, t), err |-> Nil,
             done |-> ~(i3 < Len(b) - 4)]

\* for i := 4; i < len(b)-4; { ... }: at most fuel turns, and every turn
\* moves i forward, so that Len(b) turns always suffice
RECURSIVE TagLoop(_, _, _)
TagLoop(b, st, fuel) ==
    IF st.done THEN st
    ELSE IF fuel <= 1 THEN TagStep(b, st)
    ELSE LET half == TagLoop(b, st, fuel \div 2)
         IN IF half.done THEN half
            ELSE TagLoop(b, half, fuel - (fuel \div 2))

\* UnmarshalBinary with the section length checked, and Type stored, before
\* the checksum
UnmarshalBinaryLengthFirst(pk, b) ==
    IF Len(b) < 8
    THEN [p |-> pk, err |-> ErrUnexpectedEOF, i |-> 0]
    ELSE LET want == Slice(b, Len(b) - 4, Len(b))
             got == ChecksumIEEE(Slice(b, 0, Len(b) - 4))
             p1 == [pk EXCEPT !.Type = Uint16BE(Slice(b, 0, 2))]
             length == Uint16BE(Slice(b, 2, 4))
         IN IF length # Len(b) - 8
            THEN [p |-> p1, err |-> ErrUnexpectedEOF, i |-> 0]
            ELSE IF want # got
            THEN [p |-> p1, err |-> errInvalidChecksum, i |-> 0]
            ELSE IF length = 0
            THEN [p |-> p1, err |-> Nil, i |-> 4]
            ELSE LET st == TagLoop(b, [i |-> 4, tags |-> <<>>, err |-> Nil,
                                       done |-> FALSE], Len(b))
                 IN [p |-> [p1 EXCEPT !.Tags = st.tags], err |-> st.err,
                     i |-> st.i]

UnmarshalBinary(pk, b) ==
    IF Len(b) < 8
    THEN [p |-> pk, err |-> ErrUnexpectedEOF, i |-> 0]
    ELSE LET want == Slice(b, Len(b) - 4, Len(b))
             got == ChecksumIEEE(Slice(b, 0, Len(b) - 4))
             p1 == [pk EXCEPT !.Type = Uint16BE(Slice(b, 0, 2))]
             length == Uint16BE(Slice(b, 2, 4))
         IN IF want # got
            THEN [p |-> pk, err |-> errInvalidChecksum, i |-> 0]
            ELSE IF length # Len(b) - 8
            THEN [p |-> p1, err |-> ErrUnexpectedEOF, i |-> 0]
            ELSE IF length = 0
            THEN [p |-> p1, err |-> Nil, i |-> 4]
            ELSE LET st == TagLoop(b, [i |-> 4, tags |-> <<>>, err |-> Nil,
                                       done |-> FALSE], Len(b))
                 IN [p |-> [p1 EXCEPT !.Tags = st.tags], err |-> st.err,
                     i |-> st.i]

-----------------------------------------------------------------------------
(* Inputs                                                                  *)

PacketTypes == {0, 258}

\* the tags of the packet tests, and an empty one
SmallTags ==
    { [Type |-> 2, Data |-> <<255>>],
      [Type |-> 3, Data |-> <<>>],
      [Type |-> 4, Data |-> <<170, 187, 204>>] }

SeqsUpTo(S, k) == UNION { [1..m -> S] : m \in 0..k }

SmallPackets ==
    { [Type |-> ty, Tags |-> ts] : ty \in PacketTypes, ts \in SeqsUpTo(SmallTags, MaxTags) }

\* what the receiving Packet holds before the call: nothing, or what an
\* earlier decode of the "one tag" frame left in it
Receivers ==
    { ZeroPacket, [Type |-> 1, Tags |-> <<[Type |-> 2, Data |-> <<255>>]>>] }

\* the values a byte of the buffer is overwritten with on the way
CorruptValues == {0, 1, 3, 128, 130, 255}

\* <<payload length, number of tags>> of the packets with large payloads
PayloadShapes ==
    { <<0, 0>>, <<0, 1>>, <<1, 1>>, <<127, 1>>, <<128, 1>>, <<255, 1>>,
      <<32767, 1>>, <<32768, 1>>, <<1, 2>>, <<127, 2>>, <<128, 2>> }

\* the numbers of tags of the packets with long tag lists: 508 tags of 127
\* bytes take 65532 bytes on the wire, 509 take 65661
LongLists == {508, 509}

LargePackets ==
    { [Type |-> ty, Tags |-> Repeat([Type |-> k, Data |-> Repeat(v, s[1])], s[2])] :
        ty \in {3, 258}, k \in {4, 255}, v \in {0, 255}, s \in PayloadShapes }
    \cup
    { [Type |-> 3, Tags |-> Repeat([Type |-> 4, Data |-> Repeat(255, 127)], c)] :
        c \in LongLists }

LengthValues == (0..300) \cup {512, 555, 32767, 32768, 65535}

Windows ==
    { <<>>, <<0>>, <<0, 0>>, <<170, 187>>, <<0, 0, 0>>, Repeat(0, 255) }
        \cup { <<a, b>> : a \in {0, 127, 128, 171, 255}, b \in {0, 1, 4, 255} }

-----------------------------------------------------------------------------
(* The length codec on its own                                             *)

FrameIdle ==
    /\ p = ZeroPacket /\ buf = <<>> /\ q = ZeroPacket /\ recv = ZeroPacket
    /\ at = 0 /\ out = <<>> /\ err = Nil

LengthIdle ==
    /\ n = 0 /\ win = <<0, 0>> /\ win0 = <<0, 0>>
    /\ wres = [consumed |-> 0, err |-> Nil]
    /\ rres = [length |-> 0, consumed |-> 0, err |-> Nil]

InitLength ==
    /\ FrameIdle
    /\ n \in LengthValues
    /\ win \in Windows
    /\ win0 = win
    /\ wres = [consumed |-> 0, err |-> Nil]
    /\ rres = [length |-> 0, consumed |-> 0, err |-> Nil]
    /\ op = "init"

WriteTagLength ==
    /\ op = "init"
    /\ LET r == writeTagLength(n, win)
       IN /\ win' = r.b
          /\ wres' = [consumed |-> r.consumed, err |-> r.err]
    /\ win0' = win
    /\ op' = "write"
    /\ UNCHANGED <<n, rres>>
    /\ UNCHANGED frameVars

ReadTagLength ==
    /\ op \in {"init", "write"}
    /\ LET r == readTagLength(win)
       IN rres' = [length |-> r.length, consumed |-> r.consumed, err |-> r.err]
    /\ op' = IF op = "write" THEN "write-read" ELSE "read"
    /\ UNCHANGED <<n, win, win0, wres>>
    /\ UNCHANGED frameVars

NextLength == WriteTagLength \/ ReadTagLength

SpecLength == InitLength /\ [][NextLength]_vars

-----------------------------------------------------------------------------
(* The frame codec between a caller and a transport                        *)

Init ==
    /\ p \in SmallPackets
    /\ q \in Receivers
    /\ recv = q
    /\ buf = <<>> /\ out = <<>> /\ at = 0 /\ err = Nil
    /\ op = "init"
    /\ LengthIdle

\* the caller marshals p
Marshal ==
    /\ op = "init"
    /\ LET r == MarshalBinary(p)
       IN buf' = r.b /\ err' = r.err
    /\ op' = "marshal"
    /\ UNCHANGED <<p, q, recv, at, out>>
    /\ UNCHANGED lengthVars

\* the transport overwrites one byte of the frame
Corrupt ==
    /\ op = "marshal" /\ err = Nil
    /\ \E i \in 1..Len(buf), v \in CorruptValues :
          /\ buf[i] # v
          /\ buf' = [buf EXCEPT ![i] = v]
    /\ op' = "corrupt"
    /\ UNCHANGED <<p, q, recv, at, out, err>>
    /\ UNCHANGED lengthVars

\* the transport delivers only the first k bytes of the frame
Truncate ==
    /\ op = "marshal" /\ err = Nil
    /\ \E k \in 0..(Len(buf) - 1) : buf' = SubSeq(buf, 1, k)
    /\ op' = "truncate"
    /\ UNCHANGED <<p, q, recv, at, out, err>>
    /\ UNCHANGED lengthVars

\* a producer that does not conform: the frame's last four bytes become the
\* checksum of the bytes before them
Reseal ==
    /\ op \in {"corrupt", "truncate"}
    /\ Len(buf) >= 4
    /\ LET body == SubSeq(buf, 1, Len(buf) - 4)
       IN buf' = body \o ChecksumIEEE(body)
    /\ op' = "reseal"
    /\ UNCHANGED <<p, q, recv, at, out, err>>
    /\ UNCHANGED lengthVars

\* the receiver unmarshals the buffer into q
Unmarshal ==
    /\ op \in {"marshal", "corrupt", "truncate", "reseal"}
    /\ err = Nil
    /\ LET r == UnmarshalBinary(q, buf)
       IN q' = r.p /\ err' = r.err /\ at' = r.i
    /\ recv' = q
    /\ op' = "unmarshal"
    /\ UNCHANGED <<p, buf, out>>
    /\ UNCHANGED lengthVars

\* the receiver marshals the Packet it decoded
Remarshal ==
    /\ op = "unmarshal" /\ err = Nil
    /\ LET r == MarshalBinary(q)
       IN out' = r.b /\ err' = r.err
    /\ op' = "remarshal"
    /\ UNCHANGED <<p, buf, q, recv, at>>
    /\ UNCHANGED lengthVars

Next == Marshal \/ Corrupt \/ Truncate \/ Reseal \/ Unmarshal \/ Remarshal

Spec == Init /\ [][Next]_vars

\* large payloads and long tag lists, over a transport that delivers the
\* frame as it is
InitLarge ==
    /\ p \in LargePackets
    /\ q = ZeroPacket
    /\ recv = q
    /\ buf = <<>> /\ out = <<>> /\ at = 0 /\ err = Nil
    /\ op = "init"
    /\ LengthIdle

NextLarge == Marshal \/ Unmarshal

SpecLarge == InitLarge /\ [][NextLarge]_vars

-----------------------------------------------------------------------------
(* Properties                                                              *)

\* the frame's last four bytes are the checksum of the bytes before them
ChecksumValid(b) ==
    Slice(b, Len(b) - 4, Len(b)) = ChecksumIEEE(Slice(b, 0, Len(b) - 4))

\* the section length a frame declares at bytes 2..3
DeclaredSection(b) == Uint16BE(Slice(b, 2, 4))

PayloadsBelow(pk, k) == \A j \in 1..Len(pk.Tags) : Len(pk.Tags[j].Data) < k

\* C1: a Packet whose payloads are all shorter than 128 bytes marshals without
\* error, and unmarshalling the frame into a fresh Packet succeeds and gives
\* the same Type and the same tags in the same order.
RoundTrip ==
    /\ (op = "marshal" /\ PayloadsBelow(p, 128)) => err = Nil
    /\ (/\ op = "unmarshal"
        /\ PayloadsBelow(p, 128)
        /\ recv = ZeroPacket
        /\ buf = MarshalBinary(p).b)
          => (err = Nil /\ q.Type = p.Type /\ q.Tags = p.Tags)

\* C2: UnmarshalBinary reports the first failing check of: fewer than 8 bytes
\* (unexpected EOF); trailing checksum differs from the CRC32 of the bytes
\* before it (invalid checksum, whatever the section length says, and with
\* the receiving Packet untouched); declared section length differs from
\* len(b)-8 (unexpected EOF).
CheckOrder ==
    op = "unmarshal" =>
        IF Len(buf) < 8
        THEN err = ErrUnexpectedEOF /\ q = recv
        ELSE IF ~ChecksumValid(buf)
        THEN err = errInvalidChecksum /\ q = recv
        ELSE IF DeclaredSection(buf) # Len(buf) - 8
        THEN err = ErrUnexpectedEOF
        ELSE TRUE

\* C2, witness: a frame of at least 8 bytes whose checksum and whose section
\* length are both wrong was rejected for its checksum.
CheckOrderWitness ==
    /\ op = "unmarshal"
    /\ Len(buf) >= 8
    /\ ~ChecksumValid(buf)
    /\ DeclaredSection(buf) # Len(buf) - 8
    /\ err = errInvalidChecksum

\* C3: into a 2-byte window writeTagLength(n) succeeds for every n in
\* 0..32767; below 128 it writes the byte n and consumes 1, from 128 on it
\* writes 0x80|(n&0x7f) and n>>7 and consumes 2.
WriteEncodes ==
    (op = "write" /\ Len(win0) = 2 /\ n <= 32767) =>
        /\ wres.err = Nil
        /\ IF n < 128
           THEN wres.consumed = 1 /\ win[1] = n
           ELSE /\ wres.consumed = 2
                /\ win[1] = 128 + (n % 128)
                /\ win[2] = n \div 128

\* C4: from a 2-byte window readTagLength succeeds; with the first byte's high
\* bit clear it returns that byte and consumed 1, with it set it returns
\* (first & 0x7f) | (second << 7) and consumed 2; and it reads back every
\* length writeTagLength has written, with the same consumed count.
ReadDecodes ==
    /\ (op \in {"read", "write-read"} /\ Len(win) = 2) =>
          /\ rres.err = Nil
          /\ IF win[1] < 128
             THEN rres.length = win[1] /\ rres.consumed = 1
             ELSE /\ rres.length = (win[1] % 128) + win[2] * 128
                  /\ rres.consumed = 2
    /\ (op = "write-read" /\ wres.err = Nil) =>
          /\ rres.err = Nil
          /\ rres.length = n
          /\ rres.consumed = wres.consumed

\* C5: a Packet with a payload of 128 to 32767 bytes marshals without error;
\* the tag goes out as its kind byte, a two-byte length and the payload, and
\* the section length counts them.
LargePayloadMarshals ==
    (/\ op = "marshal"
     /\ Len(p.Tags) >= 1
     /\ Len(p.Tags[1].Data) >= 128
     /\ PayloadsBelow(p, 32768)) =>
        /\ err = Nil
        /\ Len(buf) >= 8 + 3 + Len(p.Tags[1].Data)
        /\ DeclaredSection(buf) = Len(buf) - 8
        /\ At(buf, 4) = p.Tags[1].Type
        /\ At(buf, 5) = 128 + (Len(p.Tags[1].Data) % 128)
        /\ At(buf, 6) = Len(p.Tags[1].Data) \div 128
        /\ Slice(buf, 7, 7 + Len(p.Tags[1].Data)) = p.Tags[1].Data

\* C6: whenever MarshalBinary returns no error, the section length at bytes
\* 2..3 of the frame is the exact size of the tag section, len(output)-8,
\* also when the tags take more than 65535 bytes.
SectionLengthExact ==
    (op = "marshal" /\ err = Nil) =>
        /\ DeclaredSection(buf) = Len(buf) - 8
        /\ DeclaredSection(buf) = CountTags(p.Tags, 1, Len(p.Tags))

\* C7: an 8-byte frame with a valid checksum and section length 0 unmarshals
\* without error into the frame's Type and no tags, whatever the receiving
\* Packet held before.
EmptySectionDecodes ==
    (/\ op = "unmarshal"
     /\ Len(buf) = 8
     /\ ChecksumValid(buf)
     /\ DeclaredSection(buf) = 0) =>
        /\ err = Nil
        /\ q.Type = Uint16BE(Slice(buf, 0, 2))
        /\ q.Tags = <<>>

\* C8: with a window that is not 2 bytes long writeTagLength and
\* readTagLength fail with one and the same error, which is not the
\* large-tags error, and the window is left as it was.
WindowSizeError ==
    (op = "write-read" /\ Len(win0) # 2) =>
        /\ wres.err # Nil
        /\ rres.err # Nil
        /\ wres.err = rres.err
        /\ wres.err # errLargeTags
        /\ win = win0

\* the length the two bytes at offset i declare, and the bytes they take, by
\* the length encoding of the wire format
DeclaredLength(b, i) ==
    IF At(b, i) < 128
    THEN [length |-> At(b, i), consumed |-> 1]
    ELSE [length |-> (At(b, i) % 128) + At(b, i + 1) * 128, consumed |-> 2]

\* walking the tags of the section from the kind byte at offset i, some tag
\* declares more payload than is left before the trailer
RECURSIVE TagOverruns(_, _)
TagOverruns(b, i) ==
    IF ~(i < Len(b) - 4) THEN FALSE
    ELSE LET d == DeclaredLength(b, i + 1)
             data == i + 1 + d.consumed
         IN IF (Len(b) - data) - 4 < d.length THEN TRUE
            ELSE TagOverruns(b, data + d.length)

\* C9: a frame that passes the size, checksum and section length checks and
\* in which some tag declares more payload than is left before the trailer
\* fails with unexpected EOF and with no other error, having stopped before
\* the trailer's end.
TagTruncation ==
    (/\ op = "unmarshal"
     /\ Len(buf) > 8
     /\ ChecksumValid(buf)
     /\ DeclaredSection(buf) = Len(buf) - 8
     /\ TagOverruns(buf, 4)) =>
        /\ err = ErrUnexpectedEOF
        /\ at <= Len(buf)

\* C10: a buffer that unmarshals into a fresh Packet without error was parsed
\* up to offset len(b)-4 exactly, and marshalling the decoded Packet succeeds
\* and returns the same bytes.
Canonical ==
    /\ (op = "unmarshal" /\ err = Nil /\ recv = ZeroPacket)
          => at = Len(buf) - 4
    /\ (op = "remarshal" /\ recv = ZeroPacket)
          => (err = Nil /\ out = buf)

\* C10, witness: a frame changed on the way and resealed, with tags in it,
\* was decoded into a fresh Packet and marshalled back to the same bytes.
CanonicalWitness ==
    /\ op = "remarshal"
    /\ recv = ZeroPacket
    /\ buf # MarshalBinary(p).b
    /\ Len(q.Tags) >= 2
    /\ q.Tags # p.Tags
    /\ err = Nil
    /\ out = buf

====
